---------------------------- MODULE Spec2Model ----------------------------
(***************************************************************************)
(* A model of src/wormhole/wormhole.py: the two front-ends that sit        *)
(* between an application and the Boss (the protocol engine).              *)
(*                                                                         *)
(*   _DeferredWormhole   hands out Twisted Deferreds (when_code,           *)
(*                       when_verifier, when_received, close) and fires    *)
(*                       them from the Boss's events (got_code,            *)
(*                       got_verifier, received, closed).                  *)
(*   _DelegatedWormhole  passes every Boss event to a delegate object.     *)
(*                                                                         *)
(* Everything runs on one reactor thread.  d.callback()/d.errback() run    *)
(* the application's continuations synchronously, so while a handler's     *)
(* for-loop is between two observers the application may call back into    *)
(* the wormhole object.  The handlers that loop (got_code, got_verifier,   *)
(* closed) are therefore modelled one loop iteration per step, with the    *)
(* Python list iterator's index kept in `it`; the others are one step.     *)
(***************************************************************************)
EXTENDS Naturals, Sequences, FiniteSets

(***************************************************************************)
(* Bounds of the model.                                                    *)
(***************************************************************************)
\* Calls the application makes plus events the Boss delivers in one session.
MaxOps == 5
\* Of those, the commands (calls forwarded to the Boss).
MaxCommands == 2

(***************************************************************************)
(* Values.                                                                 *)
(***************************************************************************)
\* Python's None.
None == "<None>"
\* Codes, verifiers and plaintexts: opaque strings / bytes; "" is the empty one.
Vals == {"", "a"}
\* Results the Boss passes to closed(): a plain value, or a WormholeError instance.
WormholeErrors == {"WormholeError"}
Results == {"happy"} \cup WormholeErrors
\* Arguments of allocate_code and input_code.
CodeLengths == {2, 3}
Stdios == {"stdio"}
\* Arguments of debug_set_trace: a client name, and the defaults of `which`
\* and `logger`.
ClientNames == {"tx"}
DefaultWhich == "B N M S O K R RC NL C T"
DefaultLogger == "_log"

VARIABLES
    mode,                \* "deferred" | "delegated": which object _wormhole built
    code,                \* _DeferredWormhole._code
    code_observers,      \* _code_observers: sequence of Deferred ids
    verifier,            \* _verifier
    verifier_observers,  \* _verifier_observers
    received_data,       \* _received_data: sequence of plaintexts
    received_observers,  \* _received_observers
    closed_observers,    \* _closed_observers
    dfr,                 \* the Deferreds made so far; a Deferred's id is its index
    boss_calls,          \* the calls made on self._boss, in order
    delegate_calls,      \* the calls made on self._delegate, in order
    pc,                  \* the handler that is running: "idle" when none
    it,                  \* the running for-loop's iterator index (1-based)
    arg,                 \* the running handler's argument
    incb,                \* TRUE while a continuation of the last fired Deferred runs
    close_pc,            \* where a running _DeferredWormhole.close() is: "-" when none
    raised,              \* the exception that escaped the last handler, "-" if none
    contract,            \* TRUE: the Boss delivers no event after closed()
    nops,                \* history: application calls made plus events delivered
    nclosed,             \* history: closed() events delivered
    api_calls,           \* history: the command calls the application made
    events,              \* history: the events delivered to a _DelegatedWormhole
    emitted,             \* history: plaintexts passed to received(), in order
    recv_calls,          \* history: the Deferreds when_received returned, in order
    snap                 \* history: the observer lists when the last handler began

facade == <<code, code_observers, verifier, verifier_observers,
            received_data, received_observers, closed_observers>>
ctl == <<pc, it, arg, incb, close_pc>>
hist == <<contract, nops, nclosed, api_calls, events, emitted, recv_calls, snap>>
vars == <<mode, facade, dfr, boss_calls, delegate_calls, ctl, raised, hist>>

(***************************************************************************)
(* Python and Twisted primitives.                                          *)
(***************************************************************************)
\* `if x:` on a string, bytes or None.
Truthy(x) == x # None /\ x # ""

\* `if xs:` on a list.
TruthyList(xs) == Len(xs) > 0

\* list.pop(0) leaves the tail.
Pop0(xs) == SubSeq(xs, 2, Len(xs))

\* isinstance(result, WormholeError)
IsWormholeError(result) == result \in WormholeErrors

\* The state of a Deferred: not yet called, called with a value, called with
\* a failure.  `by` (the method that made it) and `n` (how often callback or
\* errback was invoked on it) are history.
NewDeferred(by) ==
    [st |-> "pending", cls |-> "-", val |-> "-", by |-> by, n |-> 0]

\* defer.succeed(v): a Deferred already called with v.
Succeed(by, v) ==
    [st |-> "ok", cls |-> "value", val |-> v, by |-> by, n |-> 1]

\* Deferred.called
Called(D, d) == D[d].st # "pending"

\* d.callback(v) on a Deferred that was not called yet.
Callback(D, d, v) ==
    [D EXCEPT ![d].st = "ok", ![d].cls = "value", ![d].val = v, ![d].n = @ + 1]

\* d.errback(e) on a Deferred that was not called yet; e is [cls, val].
Errback(D, d, e) ==
    [D EXCEPT ![d].st = "err", ![d].cls = e.cls, ![d].val = e.val, ![d].n = @ + 1]

\* callback/errback on a Deferred that was called already raises
\* AlreadyCalledError and leaves its result alone.
Rejected(D, d) == [D EXCEPT ![d].n = @ + 1]


\* A pop that takes the newest item instead of the oldest.
PopLastItem(xs) == xs[Len(xs)]

\* list.pop(0) returns the first item.
Pop0Item(xs) == xs[1]

\* An error that wraps every result in WormholeClosed.
CloseErrorAlwaysWrapped(result) ==
    [cls |-> "WormholeClosed", val |-> result]

\* The error closed() hands to errback: the result itself when it is a
\* WormholeError, else WormholeClosed(result).
CloseError(result) ==
    IF IsWormholeError(result)
    THEN [cls |-> "WormholeError", val |-> result]
    ELSE [cls |-> "WormholeClosed", val |-> result]

(***************************************************************************)
(* Who may run.  The application calls in from the reactor (no handler     *)
(* running) or from a continuation a handler is running.  The Boss         *)
(* delivers an event only from the reactor.                                *)
(***************************************************************************)
CanCall == ((pc = "idle" /\ close_pc = "-") \/ incb) /\ nops < MaxOps
BossIdle ==
    /\ pc = "idle" /\ close_pc = "-" /\ nops < MaxOps
    /\ contract => nclosed = 0

\* The list that the for-loop at `p` walks.
ObserversOf(p) ==
    CASE p = "got_code" -> code_observers
      [] p = "got_verifier" -> verifier_observers
      [] p = "closed_verifier" -> verifier_observers
      [] p = "closed_received" -> received_observers
      [] p = "closed_closed" -> closed_observers
      [] OTHER -> <<>>

\* History kept when a handler begins: the observer lists, the Deferreds
\* that are still pending, and the buffer; `loop` is the length the list of
\* the running for-loop had when that loop began.
EmptySnap == [h |-> "-", code |-> <<>>, verifier |-> <<>>,
              received |-> <<>>, closed |-> <<>>, pending |-> {},
              data |-> <<>>, loop |-> 0]
TakeSnap(h) == [h |-> h, code |-> code_observers, verifier |-> verifier_observers,
                received |-> received_observers, closed |-> closed_observers,
                pending |-> {d \in DOMAIN dfr : dfr[d].st = "pending"},
                data |-> received_data, loop |-> Len(ObserversOf(h))]

Init ==
    /\ mode \in {"deferred", "delegated"}
    /\ code = None
    /\ code_observers = <<>>
    /\ verifier = None
    /\ verifier_observers = <<>>
    /\ received_data = <<>>
    /\ received_observers = <<>>
    /\ closed_observers = <<>>
    /\ dfr = <<>>
    /\ boss_calls = <<>>
    /\ delegate_calls = <<>>
    /\ pc = "idle"
    /\ it = 0
    /\ arg = None
    /\ incb = FALSE
    /\ close_pc = "-"
    /\ raised = "-"
    /\ contract = TRUE
    /\ nops = 0
    /\ nclosed = 0
    /\ api_calls = <<>>
    /\ events = <<>>
    /\ emitted = <<>>
    /\ recv_calls = <<>>
    /\ snap = EmptySnap

(***************************************************************************)
(* _DeferredWormhole, from above: when_code, when_verifier, when_received. *)
(***************************************************************************)
Deferred_when_code ==
    /\ mode = "deferred" /\ CanCall
    /\ nops' = nops + 1
    /\ IF Truthy(code)
       THEN /\ dfr' = Append(dfr, Succeed("when_code", code))
            /\ code_observers' = code_observers
       ELSE /\ dfr' = Append(dfr, NewDeferred("when_code"))
            /\ code_observers' = Append(code_observers, Len(dfr) + 1)
    /\ UNCHANGED <<mode, code, verifier, verifier_observers, received_data,
                   received_observers, closed_observers, boss_calls,
                   delegate_calls, ctl, raised, contract, nclosed,
                   api_calls, events, emitted, recv_calls, snap>>

Deferred_when_verifier ==
    /\ mode = "deferred" /\ CanCall
    /\ nops' = nops + 1
    /\ IF Truthy(verifier)
       THEN /\ dfr' = Append(dfr, Succeed("when_verifier", verifier))
            /\ verifier_observers' = verifier_observers
       ELSE /\ dfr' = Append(dfr, NewDeferred("when_verifier"))
            /\ verifier_observers' = Append(verifier_observers, Len(dfr) + 1)
    /\ UNCHANGED <<mode, code, code_observers, verifier, received_data,
                   received_observers, closed_observers, boss_calls,
                   delegate_calls, ctl, raised, contract, nclosed,
                   api_calls, events, emitted, recv_calls, snap>>

Deferred_when_received ==
    /\ mode = "deferred" /\ CanCall
    /\ nops' = nops + 1
    /\ IF TruthyList(received_data)
       THEN /\ dfr' = Append(dfr, Succeed("when_received", Pop0Item(received_data)))
            /\ received_data' = Pop0(received_data)
            /\ received_observers' = received_observers
       ELSE /\ dfr' = Append(dfr, NewDeferred("when_received"))
            /\ received_observers' = Append(received_observers, Len(dfr) + 1)
            /\ received_data' = received_data
    /\ recv_calls' = Append(recv_calls, Len(dfr) + 1)
    /\ UNCHANGED <<mode, code, code_observers, verifier, verifier_observers,
                   closed_observers, boss_calls, delegate_calls, ctl, raised,
                   contract, nclosed, api_calls, events, emitted, snap>>

(***************************************************************************)
(* Commands, both front-ends: each is one call on self._boss.              *)
(***************************************************************************)
\* self._boss.<call>: the Boss records the call; api_calls keeps what the
\* application asked for.
Forward(asked, call) ==
    /\ CanCall
    /\ Len(api_calls) < MaxCommands
    /\ nops' = nops + 1
    /\ boss_calls' = Append(boss_calls, call)
    /\ api_calls' = Append(api_calls, asked)
    /\ UNCHANGED <<mode, delegate_calls, ctl, raised, contract, nclosed, events, emitted, recv_calls, snap>>

allocate_code(code_length) ==
    /\ Forward([op |-> "allocate_code", code_length |-> code_length],
               [op |-> "allocate_code", code_length |-> code_length])
    /\ UNCHANGED <<facade, dfr>>

input_code(stdio) ==
    /\ Forward([op |-> "input_code", stdio |-> stdio],
               [op |-> "input_code", stdio |-> stdio])
    /\ UNCHANGED <<facade, dfr>>

set_code(c) ==
    /\ Forward([op |-> "set_code", code |-> c], [op |-> "set_code", code |-> c])
    /\ UNCHANGED <<facade, dfr>>

\* A send that calls self._boss.set_code.
send_as_set_code(plaintext) ==
    /\ Forward([op |-> "send", plaintext |-> plaintext],
               [op |-> "set_code", code |-> plaintext])
    /\ UNCHANGED <<facade, dfr>>

send(plaintext) ==
    /\ Forward([op |-> "send", plaintext |-> plaintext],
               [op |-> "send", plaintext |-> plaintext])
    /\ UNCHANGED <<facade, dfr>>

\* _DelegatedWormhole.close returns nothing.
Delegated_close ==
    /\ mode = "delegated"
    /\ Forward([op |-> "close"], [op |-> "close"])
    /\ UNCHANGED <<facade, dfr>>

\* _DeferredWormhole.close makes a Deferred and appends it to _closed_observers.
Deferred_close ==
    /\ mode = "deferred"
    /\ Forward([op |-> "close"], [op |-> "close"])
    /\ dfr' = Append(dfr, NewDeferred("close"))
    /\ closed_observers' = Append(closed_observers, Len(dfr) + 1)
    /\ UNCHANGED <<code, code_observers, verifier, verifier_observers,
                   received_data, received_observers>>

\* What the application asked debug_set_trace for.
TraceAsked(client_name) ==
    [op |-> "debug_set_trace", client_name |-> client_name,
     which |-> DefaultWhich, logger |-> DefaultLogger]

\* _DelegatedWormhole.debug_set_trace, line 60: self._boss.set_trace(..)
Delegated_debug_set_trace(client_name) ==
    /\ mode = "delegated"
    /\ Forward(TraceAsked(client_name),
               [op |-> "set_trace", client_name |-> client_name,
                which |-> DefaultWhich, logger |-> DefaultLogger])
    /\ UNCHANGED <<facade, dfr>>

\* _DeferredWormhole.debug_set_trace, line 128: self._boss._set_trace(..)
Deferred_debug_set_trace(client_name) ==
    /\ mode = "deferred"
    /\ Forward(TraceAsked(client_name),
               [op |-> "_set_trace", client_name |-> client_name,
                which |-> DefaultWhich, logger |-> DefaultLogger])
    /\ UNCHANGED <<facade, dfr>>

(***************************************************************************)
(* _DelegatedWormhole, from below: each event is one call on the delegate. *)
(***************************************************************************)
Deliver(ev, call) ==
    /\ mode = "delegated" /\ BossIdle
    /\ delegate_calls' = Append(delegate_calls, call)
    /\ events' = Append(events, ev)
    /\ nops' = nops + 1
    /\ UNCHANGED <<mode, facade, dfr, boss_calls, ctl, raised, contract,
                   api_calls, emitted, recv_calls, snap>>

Delegated_got_code(c) ==
    /\ Deliver([ev |-> "got_code", val |-> c],
               [cb |-> "wormhole_got_code", val |-> c])
    /\ UNCHANGED nclosed

\* A got_verifier that calls the delegate's wormhole_got_code.
Delegated_got_verifier_as_code(v) ==
    /\ Deliver([ev |-> "got_verifier", val |-> v],
               [cb |-> "wormhole_got_code", val |-> v])
    /\ UNCHANGED nclosed

Delegated_got_verifier(v) ==
    /\ Deliver([ev |-> "got_verifier", val |-> v],
               [cb |-> "wormhole_got_verifier", val |-> v])
    /\ UNCHANGED nclosed

Delegated_received(plaintext) ==
    /\ Deliver([ev |-> "received", val |-> plaintext],
               [cb |-> "wormhole_received", val |-> plaintext])
    /\ UNCHANGED nclosed

Delegated_closed(result) ==
    /\ Deliver([ev |-> "closed", val |-> result],
               [cb |-> "wormhole_closed", val |-> result])
    /\ nclosed' = nclosed + 1

(***************************************************************************)
(* _DeferredWormhole, from below.                                          *)
(***************************************************************************)
\* A handler starts: the Boss calls it from the reactor.
Begin(h, a) ==
    /\ mode = "deferred" /\ BossIdle
    /\ pc' = h /\ it' = 1 /\ arg' = a /\ incb' = FALSE /\ raised' = "-"
    /\ nops' = nops + 1
    /\ snap' = TakeSnap(h)
    /\ UNCHANGED <<mode, dfr, boss_calls, delegate_calls, contract, close_pc,
                   api_calls, events, emitted, recv_calls>>

\* A loop that catches AlreadyCalledError and goes on to the next observer.
IterateSwallowing(obs, fired) ==
    /\ it <= Len(obs)
    /\ dfr' = (IF Called(dfr, obs[it]) THEN Rejected(dfr, obs[it]) ELSE fired)
    /\ it' = it + 1 /\ incb' = ~Called(dfr, obs[it])
    /\ UNCHANGED <<mode, boss_calls, delegate_calls, pc, arg, raised, close_pc,
                   hist>>

\* One iteration of `for d in obs: d.callback(..)` (or errback): `fired` is
\* the Deferreds after obs[it] fired.  A Deferred that was called already
\* raises AlreadyCalledError, which leaves the handler.
Iterate(obs, fired) ==
    /\ it <= Len(obs)
    /\ IF Called(dfr, obs[it])
       THEN /\ dfr' = Rejected(dfr, obs[it])
            /\ raised' = "AlreadyCalledError"
            /\ pc' = "idle" /\ it' = 0 /\ incb' = FALSE
       ELSE /\ dfr' = fired
            /\ it' = it + 1 /\ incb' = TRUE
            /\ UNCHANGED <<pc, raised>>
    /\ UNCHANGED <<mode, boss_calls, delegate_calls, arg, close_pc, hist>>

\* The for-loop of handler `h` is exhausted; the handler goes on at `next`.
Exhausted(h, obs, next) ==
    /\ pc = h /\ it > Len(obs)
    /\ pc' = next /\ it' = (IF next = "idle" THEN 0 ELSE 1) /\ incb' = FALSE
    /\ snap' = [snap EXCEPT !.loop = Len(ObserversOf(next))]
    /\ UNCHANGED <<mode, dfr, boss_calls, delegate_calls, arg, raised, contract,
                   close_pc, nops, nclosed, api_calls, events, emitted,
                   recv_calls>>

\* got_code, line 132: self._code = code
Deferred_got_code(c) ==
    /\ Begin("got_code", c)
    /\ code' = c
    /\ UNCHANGED <<code_observers, verifier, verifier_observers, received_data,
                   received_observers, closed_observers, nclosed>>

\* got_code, lines 133-134: for d in self._code_observers: d.callback(code)
got_code_loop ==
    /\ pc = "got_code"
    /\ Iterate(code_observers, Callback(dfr, code_observers[it], arg))
    /\ UNCHANGED facade

\* A got_code that returns without clearing its observer list.
got_code_keep ==
    /\ Exhausted("got_code", code_observers, "idle")
    /\ UNCHANGED facade

\* got_code, line 135: self._code_observers[:] = []
got_code_clear ==
    /\ Exhausted("got_code", code_observers, "idle")
    /\ code_observers' = <<>>
    /\ UNCHANGED <<code, verifier, verifier_observers, received_data,
                   received_observers, closed_observers>>

Deferred_got_verifier(v) ==
    /\ Begin("got_verifier", v)
    /\ verifier' = v
    /\ UNCHANGED <<code, code_observers, verifier_observers, received_data,
                   received_observers, closed_observers, nclosed>>

got_verifier_loop ==
    /\ pc = "got_verifier"
    /\ Iterate(verifier_observers, Callback(dfr, verifier_observers[it], arg))
    /\ UNCHANGED facade

got_verifier_clear ==
    /\ Exhausted("got_verifier", verifier_observers, "idle")
    /\ verifier_observers' = <<>>
    /\ UNCHANGED <<code, code_observers, verifier, received_data,
                   received_observers, closed_observers>>

\* received: nothing runs after the callback, so it is one step.
Deferred_received(plaintext) ==
    /\ mode = "deferred" /\ BossIdle
    /\ nops' = nops + 1
    /\ emitted' = Append(emitted, plaintext)
    /\ IF TruthyList(received_observers)
       THEN /\ received_observers' = Pop0(received_observers)
            /\ IF Called(dfr, Pop0Item(received_observers))
               THEN /\ dfr' = Rejected(dfr, Pop0Item(received_observers))
                    /\ raised' = "AlreadyCalledError"
               ELSE /\ dfr' = Callback(dfr, Pop0Item(received_observers), plaintext)
                    /\ raised' = "-"
            /\ received_data' = received_data
       ELSE /\ received_data' = Append(received_data, plaintext)
            /\ raised' = "-"
            /\ UNCHANGED <<dfr, received_observers>>
    /\ UNCHANGED <<mode, code, code_observers, verifier, verifier_observers,
                   closed_observers, boss_calls, delegate_calls, ctl, contract,
                   nclosed, api_calls, events, recv_calls, snap>>

\* closed, lines 149-153: e is computed from the result (CloseError).
\* A closed() that empties _code_observers first.
Deferred_closed_dropping_code(result) ==
    /\ Begin("closed_verifier", result)
    /\ nclosed' = nclosed + 1
    /\ code_observers' = <<>>
    /\ UNCHANGED <<code, verifier, verifier_observers, received_data,
                   received_observers, closed_observers>>

\* A closed() that empties _received_data first.
Deferred_closed_dropping_data(result) ==
    /\ Begin("closed_verifier", result)
    /\ nclosed' = nclosed + 1
    /\ received_data' = <<>>
    /\ UNCHANGED <<code, code_observers, verifier, verifier_observers,
                   received_observers, closed_observers>>

Deferred_closed(result) ==
    /\ Begin("closed_verifier", result)
    /\ nclosed' = nclosed + 1
    /\ UNCHANGED facade

\* closed, lines 154-155: for d in self._verifier_observers: d.errback(e)
closed_verifier_loop ==
    /\ pc = "closed_verifier"
    /\ Iterate(verifier_observers,
               Errback(dfr, verifier_observers[it], CloseError(arg)))
    /\ UNCHANGED facade

\* A closed() that goes from the verifier observers straight to the closed
\* observers.
closed_verifier_skip ==
    /\ Exhausted("closed_verifier", verifier_observers, "closed_closed")
    /\ UNCHANGED facade

closed_verifier_done ==
    /\ Exhausted("closed_verifier", verifier_observers, "closed_received")
    /\ UNCHANGED facade

\* closed, lines 156-157: for d in self._received_observers: d.errback(e)
closed_received_loop ==
    /\ pc = "closed_received"
    /\ Iterate(received_observers,
               Errback(dfr, received_observers[it], CloseError(arg)))
    /\ UNCHANGED facade

\* A closed() that returns after the received observers.
closed_received_return ==
    /\ Exhausted("closed_received", received_observers, "idle")
    /\ UNCHANGED facade

closed_received_done ==
    /\ Exhausted("closed_received", received_observers, "closed_closed")
    /\ UNCHANGED facade

\* closed, lines 158-159: for d in self._closed_observers: d.callback(result)
closed_closed_loop ==
    /\ pc = "closed_closed"
    /\ Iterate(closed_observers, Callback(dfr, closed_observers[it], arg))
    /\ UNCHANGED facade

closed_return ==
    /\ Exhausted("closed_closed", closed_observers, "idle")
    /\ UNCHANGED facade

(***************************************************************************)
(* The program.                                                            *)
(***************************************************************************)
\* What the application does.
App ==
    \/ Deferred_when_code
    \/ Deferred_when_verifier
    \/ Deferred_when_received
    \/ Deferred_close
    \/ Delegated_close
    \/ \E n \in CodeLengths : allocate_code(n)
    \/ \E s \in Stdios : input_code(s)
    \/ \E c \in Vals : set_code(c)
    \/ \E p \in Vals : send(p)
    \/ \E n \in ClientNames : Delegated_debug_set_trace(n)
    \/ \E n \in ClientNames : Deferred_debug_set_trace(n)

\* The events the Boss delivers.
BossEvent ==
    \/ \E c \in Vals : Deferred_got_code(c)
    \/ \E v \in Vals : Deferred_got_verifier(v)
    \/ \E p \in Vals : Deferred_received(p)
    \/ \E r \in Results : Deferred_closed(r)
    \/ \E c \in Vals : Delegated_got_code(c)
    \/ \E v \in Vals : Delegated_got_verifier(v)
    \/ \E p \in Vals : Delegated_received(p)
    \/ \E r \in Results : Delegated_closed(r)

\* A running handler goes on.
Handler ==
    \/ got_code_loop
    \/ got_code_clear
    \/ got_verifier_loop
    \/ got_verifier_clear
    \/ closed_verifier_loop
    \/ closed_verifier_done
    \/ closed_received_loop
    \/ closed_received_done
    \/ closed_closed_loop
    \/ closed_return

Next ==
    \/ App
    \/ BossEvent
    \/ Handler

\* The Boss keeps its contract: it delivers no event after closed().
Spec == Init /\ [][Next]_vars

\* The Boss may break its contract and deliver events after closed().
InitFaultyBoss ==
    \E m \in {"deferred", "delegated"} :
        /\ mode = m
        /\ code = None
        /\ code_observers = <<>>
        /\ verifier = None
        /\ verifier_observers = <<>>
        /\ received_data = <<>>
        /\ received_observers = <<>>
        /\ closed_observers = <<>>
        /\ dfr = <<>>
        /\ boss_calls = <<>>
        /\ delegate_calls = <<>>
        /\ pc = "idle"
        /\ it = 0
        /\ arg = None
        /\ incb = FALSE
    /\ close_pc = "-"
        /\ raised = "-"
        /\ contract = FALSE
        /\ nops = 0
        /\ nclosed = 0
        /\ api_calls = <<>>
        /\ events = <<>>
        /\ emitted = <<>>
        /\ recv_calls = <<>>
        /\ snap = EmptySnap

SpecFaultyBoss == InitFaultyBoss /\ [][Next]_vars

(***************************************************************************)
(* _DeferredWormhole.close, statement by statement, with a Boss that may   *)
(* call closed() before self._boss.close() returns.                        *)
(***************************************************************************)
\* close, line 121: self._boss.close(), called from the reactor.
Deferred_close_call_boss ==
    /\ mode = "deferred" /\ pc = "idle" /\ close_pc = "-"
    /\ nops < MaxOps /\ Len(api_calls) < MaxCommands
    /\ nops' = nops + 1
    /\ close_pc' = "boss.close"
    /\ boss_calls' = Append(boss_calls, [op |-> "close"])
    /\ api_calls' = Append(api_calls, [op |-> "close"])
    /\ UNCHANGED <<mode, facade, dfr, delegate_calls, pc, it, arg, incb, raised,
                   contract, nclosed, events, emitted, recv_calls, snap>>

\* The Boss calls closed(result) from inside self._boss.close().
Deferred_closed_in_close(result) ==
    /\ mode = "deferred" /\ pc = "idle" /\ close_pc = "boss.close"
    /\ nops < MaxOps /\ nclosed = 0
    /\ nops' = nops + 1 /\ nclosed' = nclosed + 1
    /\ close_pc' = "closed"
    /\ pc' = "closed_verifier" /\ it' = 1 /\ arg' = result /\ incb' = FALSE
    /\ raised' = "-"
    /\ snap' = TakeSnap("closed_verifier")
    /\ UNCHANGED <<mode, facade, dfr, boss_calls, delegate_calls, contract,
                   api_calls, events, emitted, recv_calls>>

\* close, lines 122-124: self._boss.close() has returned; d = Deferred(),
\* self._closed_observers.append(d), return d.
Deferred_close_register ==
    /\ mode = "deferred" /\ pc = "idle" /\ close_pc # "-"
    /\ close_pc' = "-"
    /\ dfr' = Append(dfr, NewDeferred("close"))
    /\ closed_observers' = Append(closed_observers, Len(dfr) + 1)
    /\ UNCHANGED <<mode, code, code_observers, verifier, verifier_observers,
                   received_data, received_observers, boss_calls,
                   delegate_calls, pc, it, arg, incb, raised, hist>>

NextSyncBoss ==
    \/ Next
    \/ Deferred_close_call_boss
    \/ \E r \in Results : Deferred_closed_in_close(r)
    \/ Deferred_close_register

\* The Boss keeps its contract, and may deliver closed() synchronously,
\* during the close command.
SpecSyncBoss == Init /\ [][NextSyncBoss]_vars

(***************************************************************************)
(* Properties.                                                             *)
(***************************************************************************)
Range(xs) == {xs[i] : i \in DOMAIN xs}
ClosedPcs == {"closed_verifier", "closed_received", "closed_closed"}
\* What a Deferred was called with.
Outcome(r) == <<r.st, r.cls, r.val>>
Fired(v) == <<"ok", "value", v>>
Failed(e) == <<"err", e.cls, e.val>>

\* C1: until closed() fires, the k-th Deferred that when_received returned
\* has been called, once, with the k-th plaintext that received() was given,
\* as soon as both exist; a when_received Deferred beyond the plaintexts
\* delivered so far is a pending observer, in call order; and the buffer is
\* exactly the plaintexts no when_received call has claimed yet, in order.
C1_ReceivedFifo ==
    (mode = "deferred" /\ nclosed = 0) =>
        /\ \A k \in DOMAIN recv_calls :
              IF k <= Len(emitted)
              THEN /\ Outcome(dfr[recv_calls[k]]) = Fired(emitted[k])
                   /\ dfr[recv_calls[k]].n = 1
              ELSE /\ dfr[recv_calls[k]].st = "pending"
                   /\ dfr[recv_calls[k]].n = 0
        /\ received_observers =
              SubSeq(recv_calls, Len(emitted) + 1, Len(recv_calls))
        /\ received_data = SubSeq(emitted, Len(recv_calls) + 1, Len(emitted))

\* C1's case: three plaintexts, the first two different, and two
\* when_received calls, before closed().
C1_Witness ==
    /\ mode = "deferred" /\ nclosed = 0
    /\ Len(emitted) = 3 /\ Len(recv_calls) = 2
    /\ emitted[1] # emitted[2]
    /\ dfr[recv_calls[2]].st = "ok"

\* C2: when got_code(c) returns, every Deferred that was on the code
\* observer list when it began has been called, once, with c, and the list is
\* empty; got_code never leaves by an exception.  The same for got_verifier
\* and the verifier observer list.
C2_CacheAndBroadcast ==
    [][/\ (pc = "got_code" /\ pc' = "idle") =>
            /\ raised' = "-"
            /\ code' = arg
            /\ code_observers' = <<>>
            /\ \A d \in Range(snap.code) :
                  /\ dfr[d].by = "when_code"
                  /\ Outcome(dfr'[d]) = Fired(arg)
                  /\ dfr'[d].n = 1
       /\ (pc = "got_verifier" /\ pc' = "idle") =>
            /\ raised' = "-"
            /\ verifier' = arg
            /\ verifier_observers' = <<>>
            /\ \A d \in Range(snap.verifier) :
                  /\ dfr[d].by = "when_verifier"
                  /\ Outcome(dfr'[d]) = Fired(arg)
                  /\ dfr'[d].n = 1
      ]_vars

\* C2's case: got_code("a") has returned after two when_code calls.
C2_Witness ==
    /\ pc = "idle" /\ snap.h = "got_code" /\ arg = "a"
    /\ Len(snap.code) = 2
    /\ \A d \in Range(snap.code) : dfr[d].st = "ok"

\* C3: a when_code call made once got_code(c) has fired, whatever c is,
\* returns a Deferred already called with c and appends no observer; the same
\* for when_verifier once got_verifier(v) has fired.
C3_LateSubscriber ==
    [][(Len(dfr') = Len(dfr) + 1) =>
          /\ (dfr'[Len(dfr')].by = "when_code" /\ code # None) =>
                /\ Outcome(dfr'[Len(dfr')]) = Fired(code)
                /\ code_observers' = code_observers
          /\ (dfr'[Len(dfr')].by = "when_verifier" /\ verifier # None) =>
                /\ Outcome(dfr'[Len(dfr')]) = Fired(verifier)
                /\ verifier_observers' = verifier_observers
      ]_vars

\* C4: when closed(result) returns, every Deferred that was a pending
\* verifier or received observer when it began has been failed, once, with
\* the error made from result; closed() runs all three loops and does not
\* leave by an exception.
C4_CloseDrainsPending ==
    [][(pc \in ClosedPcs /\ pc' = "idle") =>
          /\ pc = "closed_closed"
          /\ raised' = "-"
          /\ \A d \in (Range(snap.verifier) \cup Range(snap.received))
                          \cap snap.pending :
                /\ Outcome(dfr'[d]) = Failed(CloseError(arg))
                /\ dfr'[d].n = 1
      ]_vars

\* C4's case: closed() has returned; a when_verifier and a when_received
\* Deferred were pending when it began.
C4_Witness ==
    /\ pc = "idle" /\ snap.h = "closed_verifier"
    /\ Range(snap.verifier) \cap snap.pending # {}
    /\ Range(snap.received) \cap snap.pending # {}
    /\ \A d \in Range(snap.verifier) \cup Range(snap.received) :
          dfr[d].st = "err"

\* C5: when the Boss's one closed(result) returns, every Deferred a close()
\* call returned before it began (and every one returned while it ran) has
\* been called, once, with result itself.
C5_CloseFuture ==
    [][(pc \in ClosedPcs /\ pc' = "idle") =>
          /\ Range(snap.closed) \subseteq Range(closed_observers')
          /\ \A d \in Range(closed_observers') :
                /\ dfr'[d].by = "close"
                /\ Outcome(dfr'[d]) = Fired(arg)
                /\ dfr'[d].n = 1
      ]_vars

\* C5's case: closed(WormholeError) has returned after two close() calls.
C5_Witness ==
    /\ pc = "idle" /\ snap.h = "closed_verifier" /\ arg \in WormholeErrors
    /\ Len(snap.closed) = 2
    /\ \A d \in Range(snap.closed) : dfr[d].st = "ok"

DelegateMethod(ev) ==
    CASE ev = "got_code" -> "wormhole_got_code"
      [] ev = "got_verifier" -> "wormhole_got_verifier"
      [] ev = "received" -> "wormhole_received"
      [] ev = "closed" -> "wormhole_closed"

\* C7: in a _DelegatedWormhole the calls made on the delegate are, one for
\* one and in order, the events the Boss delivered, each with the event's
\* value, in every state (the call is made in the step that delivers the
\* event); nothing is stored and no handler is left running.
C7_PushImmediacy ==
    mode = "delegated" =>
        /\ Len(delegate_calls) = Len(events)
        /\ \A i \in DOMAIN events :
              delegate_calls[i] =
                  [cb |-> DelegateMethod(events[i].ev), val |-> events[i].val]
        /\ code = None /\ verifier = None
        /\ received_data = <<>> /\ dfr = <<>>
        /\ pc = "idle"

\* C7's case: the delegate has had all four events.
C7_Witness ==
    /\ mode = "delegated" /\ Len(events) = 4
    /\ {events[i].ev : i \in DOMAIN events} =
          {"got_code", "got_verifier", "received", "closed"}
    /\ Len(boss_calls) = 1

\* The five commands C8 is about.
Commands == {"allocate_code", "input_code", "set_code", "send", "close"}

\* C8: a step in which the application calls one of the five commands
\* appends exactly that call, with its arguments, to the calls made on the
\* Boss; it raises nothing, leaves the running handler where it was, and leaves _code,
\* _verifier, _received_data and the code, verifier and received observer
\* lists alone; only _DeferredWormhole.close makes a Deferred, which it
\* appends to _closed_observers.  No other step calls the Boss.
C8_CommandForwarding ==
    [][/\ api_calls' = api_calls => boss_calls' = boss_calls
       /\ api_calls' # api_calls => Len(api_calls') = Len(api_calls) + 1
       /\ (/\ api_calls' # api_calls
           /\ api_calls'[Len(api_calls')].op \in Commands) =>
            /\ boss_calls' = Append(boss_calls, api_calls'[Len(api_calls')])
            /\ Len(boss_calls) = Len(api_calls)
            /\ UNCHANGED <<raised, pc, it, arg, incb>>
            /\ UNCHANGED <<code, code_observers, verifier, verifier_observers,
                           received_data, received_observers>>
            /\ IF mode = "deferred" /\ api_calls'[Len(api_calls')].op = "close"
               THEN /\ dfr' = Append(dfr, NewDeferred("close"))
                    /\ closed_observers' = Append(closed_observers, Len(dfr) + 1)
               ELSE UNCHANGED <<dfr, closed_observers>>
      ]_vars

\* C8's case: send then close on a _DeferredWormhole that holds a code and a
\* buffered plaintext.
C8_Witness ==
    /\ mode = "deferred" /\ code # None /\ received_data # <<>>
    /\ Len(boss_calls) = 2
    /\ boss_calls[1].op = "send" /\ boss_calls[2].op = "close"
    /\ Len(closed_observers) = 1

\* The pending Deferreds on an observer list.
PendingOn(obs) == {d \in Range(obs) : dfr[d].st = "pending"}

\* C9: between operations, received observers are not pending while
\* plaintexts are buffered, and no code (verifier) observer is pending once a
\* code (verifier) has been delivered.
C9_WaiterBufferExclusive ==
    (mode = "deferred" /\ pc = "idle") =>
        /\ ~(PendingOn(received_observers) # {} /\ received_data # <<>>)
        /\ ~(code # None /\ PendingOn(code_observers) # {})
        /\ ~(verifier # None /\ PendingOn(verifier_observers) # {})

\* C10: when closed(result) returns, every Deferred that was a pending code,
\* verifier or received observer when it began has been failed with the
\* error made from result.
C10_CloseCoversEveryChannel ==
    [][(pc \in ClosedPcs /\ pc' = "idle") =>
          \A d \in (Range(snap.code) \cup Range(snap.verifier)
                        \cup Range(snap.received)) \cap snap.pending :
              Outcome(dfr'[d]) = Failed(CloseError(arg))
      ]_vars

\* C11: a when_verifier call made after closed(result) has returned, with no
\* verifier stored, and a when_received call made then with no plaintext
\* buffered, return a Deferred that has been failed with the error made from
\* result, not a pending one.
C11_LateSubscriberGetsCloseError ==
    [][(/\ mode = "deferred" /\ pc = "idle" /\ nclosed >= 1
        /\ Len(dfr') = Len(dfr) + 1
        /\ \/ dfr'[Len(dfr')].by = "when_verifier" /\ verifier = None
           \/ dfr'[Len(dfr')].by = "when_received" /\ received_data = <<>>) =>
          Outcome(dfr'[Len(dfr')]) = Failed(CloseError(arg))
      ]_vars

\* C12: while closed(result) runs, a when_verifier or when_received Deferred
\* whose outcome changes is failed, with result itself when result is a
\* WormholeError and with a WormholeClosed that holds result otherwise (one
\* error for all of them), and a close() Deferred whose outcome changes is
\* called back with result as its value, whatever result is.
C12_CloseErrorClassification ==
    [][(mode = "deferred" /\ nclosed = 1 /\ pc \in ClosedPcs) =>
          \A d \in DOMAIN dfr :
              Outcome(dfr'[d]) # Outcome(dfr[d]) =>
                  IF dfr[d].by \in {"when_verifier", "when_received"}
                  THEN Outcome(dfr'[d]) =
                          IF arg \in WormholeErrors
                          THEN <<"err", "WormholeError", arg>>
                          ELSE <<"err", "WormholeClosed", arg>>
                  ELSE /\ dfr[d].by = "close"
                       /\ Outcome(dfr'[d]) = <<"ok", "value", arg>>
      ]_vars

\* C12's case: closed(WormholeError) has returned after failing a verifier
\* and a received observer with that error and calling a close() Deferred
\* with it as a value.
C12_Witness ==
    /\ pc = "idle" /\ nclosed = 1 /\ arg \in WormholeErrors
    /\ \E v, r, c \in DOMAIN dfr :
          /\ dfr[v].by = "when_verifier" /\ dfr[r].by = "when_received"
          /\ Outcome(dfr[v]) = <<"err", "WormholeError", arg>>
          /\ Outcome(dfr[r]) = Outcome(dfr[v])
          /\ dfr[c].by = "close" /\ Outcome(dfr[c]) = <<"ok", "value", arg>>

\* C13: got_verifier(v) stores v over whatever verifier was stored; a
\* when_verifier call made between events after a got_verifier returns a
\* Deferred already called with the verifier stored last; and while a
\* got_verifier runs, a Deferred that was called already is not called again
\* and keeps its outcome.
C13_VerifierOverwrite ==
    [][/\ (pc = "idle" /\ pc' = "got_verifier") => verifier' = arg'
       /\ (/\ pc = "idle" /\ verifier # None
           /\ Len(dfr') = Len(dfr) + 1
           /\ dfr'[Len(dfr')].by = "when_verifier") =>
              Outcome(dfr'[Len(dfr')]) = Fired(verifier)
       /\ pc = "got_verifier" =>
              \A d \in DOMAIN dfr : Called(dfr, d) => dfr'[d] = dfr[d]
      ]_vars

\* The call on the Boss that a command stands for: debug_set_trace is the
\* Boss's set_trace, with the same arguments; every other command is the
\* Boss method of its own name.
EngineCall(asked) ==
    IF asked.op = "debug_set_trace"
    THEN [op |-> "set_trace", client_name |-> asked.client_name,
          which |-> asked.which, logger |-> asked.logger]
    ELSE asked

\* C14: whichever front-end was built, the calls made on the Boss are, one
\* for one and in order, the Boss calls that the commands the application
\* called stand for, with the same arguments: the same commands give the
\* same calls on the Boss from a _DelegatedWormhole and a _DeferredWormhole.
C14_SameCommandSurface ==
    /\ Len(boss_calls) = Len(api_calls)
    /\ \A i \in DOMAIN api_calls : boss_calls[i] = EngineCall(api_calls[i])

\* The for-loops of got_code, got_verifier and closed.
LoopPcs == {"got_code", "got_verifier"} \cup ClosedPcs

\* C15: a Deferred that a for-loop of got_code, got_verifier or closed fires
\* was on the loop's list when the loop began: one that a continuation
\* appended to that list while the loop ran is not fired by that loop; and
\* no Deferred is called twice.
C15_ReentrantRegistrationSkipped ==
    [][(/\ mode = "deferred" /\ pc \in LoopPcs
        /\ \E d \in DOMAIN dfr : Outcome(dfr'[d]) # Outcome(dfr[d])) =>
          /\ it <= snap.loop
          /\ \A d \in DOMAIN dfr : dfr'[d].n <= 1
      ]_vars

\* C16: no step of closed() itself (its first step and every step of its
\* three loops; not the calls a continuation makes meanwhile) changes _code
\* or _code_observers or touches a Deferred on _code_observers; and when
\* closed() returns, the code observers it found are still on the list, in
\* order, and those it found pending are still pending.
C16_ClosedLeavesCodeAlone ==
    [][/\ (/\ mode = "deferred"
           /\ \/ nclosed' # nclosed
              \/ pc \in ClosedPcs /\ nops' = nops) =>
              /\ code' = code
              /\ code_observers' = code_observers
              /\ \A d \in Range(code_observers) : dfr'[d] = dfr[d]
       /\ (pc \in ClosedPcs /\ pc' = "idle") =>
              /\ Len(code_observers') >= Len(snap.code)
              /\ SubSeq(code_observers', 1, Len(snap.code)) = snap.code
              /\ \A d \in Range(snap.code) \cap snap.pending :
                    dfr'[d].st = "pending" /\ dfr'[d].n = 0
      ]_vars

\* C16's case: closed() has returned after failing a verifier observer,
\* having found a pending code observer.
C16_Witness ==
    /\ pc = "idle" /\ nclosed = 1
    /\ Len(snap.code) >= 1 /\ snap.code = code_observers
    /\ \A d \in Range(snap.code) : dfr[d].st = "pending"
    /\ \E v \in Range(snap.verifier) : dfr[v].st = "err"

\* C17: once a closed() has returned, a got_code, got_verifier or received
\* that the Boss delivers is rejected: it leaves by an exception, and neither
\* its first step nor its loop changes _code, _verifier or _received_data
\* or the outcome of any Deferred.
C17_ClosedIsAbsorbing ==
    [][/\ (/\ mode = "deferred" /\ pc = "idle" /\ nclosed >= 1
           /\ nclosed' = nclosed /\ nops' = nops + 1
           /\ Len(dfr') = Len(dfr) /\ api_calls' = api_calls) =>
              /\ raised' # "-" /\ pc' = "idle"
              /\ code' = code /\ verifier' = verifier
              /\ received_data' = received_data
              /\ \A d \in DOMAIN dfr : Outcome(dfr'[d]) = Outcome(dfr[d])
       /\ (nclosed >= 1 /\ pc \in {"got_code", "got_verifier"}) =>
              \A d \in DOMAIN dfr : Outcome(dfr'[d]) = Outcome(dfr[d])
      ]_vars

\* C18: when the Boss called closed(result) while close() was inside
\* self._boss.close(), the Deferred that close() then returns has been called
\* back with result.
C18_CloseRegisteredBeforeDispatch ==
    [][(close_pc = "closed" /\ close_pc' = "-") =>
          Outcome(dfr'[Len(dfr')]) = Fired(arg)
      ]_vars

\* The Deferreds that were on the verifier, received or closed observer list
\* when the last handler began.
WaitersAtStart ==
    Range(snap.verifier) \cup Range(snap.received) \cup Range(snap.closed)

\* The Deferreds on those three lists now that have been called, other than
\* those the last handler found called already.
ResolvedSinceStart ==
    {d \in Range(verifier_observers) \cup Range(received_observers)
               \cup Range(closed_observers) :
        Called(dfr, d) /\ (d \in WaitersAtStart => d \in snap.pending)}

\* C19: closed() calls no more Deferreds than were pending on its three lists
\* when it began, however often a continuation calls when_verifier,
\* when_received or close again, and when it has returned it has called
\* exactly that many.
C19_ClosedBoundedByPending ==
    (mode = "deferred" /\ nclosed = 1 /\ snap.h = "closed_verifier") =>
        /\ Cardinality(ResolvedSinceStart) <=
              Cardinality(WaitersAtStart \cap snap.pending)
        /\ pc = "idle" =>
              Cardinality(ResolvedSinceStart) =
                  Cardinality(WaitersAtStart \cap snap.pending)

\* C20: no step of closed() itself changes _received_data; and a
\* when_received call made after a closed() began, while plaintexts are
\* buffered, returns a Deferred already called with the oldest of them,
\* takes that one off the buffer and leaves the rest in order, and appends no
\* observer.
C20_BufferSurvivesClose ==
    [][/\ (/\ mode = "deferred"
           /\ \/ nclosed' # nclosed
              \/ pc \in ClosedPcs /\ nops' = nops) =>
              received_data' = received_data
       /\ (/\ nclosed >= 1 /\ received_data # <<>>
           /\ recv_calls' # recv_calls) =>
              /\ dfr' = Append(dfr, [st |-> "ok", cls |-> "value",
                                     val |-> received_data[1],
                                     by |-> "when_received", n |-> 1])
              /\ received_data' = Tail(received_data)
              /\ received_observers' = received_observers
      ]_vars

\* C20's case: closed() found two different plaintexts buffered, and two
\* when_received calls since have returned them, the older first, which
\* emptied the buffer.
C20_Witness ==
    /\ pc = "idle" /\ nclosed = 1 /\ snap.h = "closed_verifier"
    /\ Len(snap.data) = 2 /\ snap.data[1] # snap.data[2]
    /\ Len(recv_calls) = 2 /\ received_data = <<>>
    /\ \A k \in 1..2 : Outcome(dfr[recv_calls[k]]) = Fired(snap.data[k])

=============================================================================
